---- MODULE Spec2Model ----
(***************************************************************************)
(* Verification model of genanki-rs-rev: template requirement analysis,    *)
(* card generation (core and legacy Note constructors), deck building and  *)
(* package export into the notes/cards tables.                             *)
(*                                                                         *)
(* Text is modelled as a sequence of one-character strings.  The sentinel  *)
(* "SeNtInEl" is kept as ONE word character (SENT): no field name or       *)
(* literal of the model contains a fragment of it.                         *)
(***************************************************************************)
EXTENDS Integers, Sequences, FiniteSets, TLC

(* ---------------------------------------------------------------------- *)
(* Bounds                                                                  *)
(* ---------------------------------------------------------------------- *)
MaxDecks == 2
MaxNotes == 2
MaxTags == 1
MaxCalls == 3

(* ---------------------------------------------------------------------- *)
(* Characters and strings                                                  *)
(* ---------------------------------------------------------------------- *)
SENT == "SeNtInEl"

NonWordChars == {" ", "\t", "\n", "<", ">", "%", ":", "{", "}", "-"}

IsWord(c) == c \notin NonWordChars

DigitChars == {"0", "1", "2", "3", "4", "5", "6", "7", "8", "9"}

DigitVal(c) ==
    CASE c = "0" -> 0 [] c = "1" -> 1 [] c = "2" -> 2 [] c = "3" -> 3
      [] c = "4" -> 4 [] c = "5" -> 5 [] c = "6" -> 6 [] c = "7" -> 7
      [] c = "8" -> 8 [] c = "9" -> 9

RECURSIVE Concat(_)
Concat(ss) == IF ss = <<>> THEN <<>> ELSE Head(ss) \o Concat(Tail(ss))

RECURSIVE Join(_, _)
Join(ss, sep) ==
    IF ss = <<>> THEN <<>>
    ELSE IF Len(ss) = 1 THEN ss[1]
    ELSE ss[1] \o sep \o Join(Tail(ss), sep)

Range(s) == {s[i] : i \in DOMAIN s}

Perms(S) ==
    {f \in [1..Cardinality(S) -> S] : \A i, j \in DOMAIN f : i # j => f[i] # f[j]}

StartsAt(r, p, v) ==
    /\ p + Len(v) <= Len(r)
    /\ \A i \in 1..Len(v) : r[p + i] = v[i]

Contains(r, v) == \E p \in 0..Len(r) : StartsAt(r, p, v)

(* regex \b at the position between r[p] and r[p+1] *)
Boundary(r, p) ==
    LET before == p >= 1 /\ p <= Len(r) /\ IsWord(r[p])
        after  == p < Len(r) /\ IsWord(r[p + 1])
    IN  before # after

(* ---------------------------------------------------------------------- *)
(* Field names, templates, models                                          *)
(* ---------------------------------------------------------------------- *)
Front == <<"F", "r", "o", "n", "t">>
Back == <<"B", "a", "c", "k">>
AddReverse == <<"A", "d", "d", "R", "e", "v", "e", "r", "s", "e">>
Text == <<"T", "e", "x", "t">>
Extra == <<"E", "x", "t", "r", "a">>
Ghost == <<"G", "h", "o", "s", "t">>

(* elements of a parsed question format *)
Lit(txt) == [k |-> "lit", n |-> <<>>, s |-> txt, body |-> <<>>]
Var(nm) == [k |-> "var", n |-> nm, s |-> <<>>, body |-> <<>>]
Sec(nm, b) == [k |-> "sec", n |-> nm, s |-> <<>>, body |-> b]
Inv(nm, b) == [k |-> "inv", n |-> nm, s |-> <<>>, body |-> b]
ClozeDir(nm) == [k |-> "cloze", n |-> nm, s |-> <<>>, body |-> <<>>]
ClozeAlt(nm) == [k |-> "cloze_alt", n |-> nm, s |-> <<>>, body |-> <<>>]

Template(nm, q) == [name |-> nm, qfmt |-> q, wellformed |-> TRUE]
BrokenTemplate(nm) == [name |-> nm, qfmt |-> <<>>, wellformed |-> FALSE]

Model(i, f, t, mt) == [id |-> i, fields |-> f, templates |-> t, model_type |-> mt]

num_fields(model) == Len(model.fields)

num_templates(model) == Len(model.templates)

(* ---------------------------------------------------------------------- *)
(* Template rendering with every field bound to its placeholder            *)
(* ---------------------------------------------------------------------- *)
Placeholder(name) == name \o <<SENT>>

field_values(model) == [n \in Range(model.fields) |-> Placeholder(n)]

RECURSIVE Render(_, _)
Render(elems, fv) ==
    IF elems = <<>> THEN <<>>
    ELSE LET e == Head(elems)
             out == CASE e.k = "lit" -> e.s
                      [] e.k = "var" -> IF e.n \in DOMAIN fv THEN fv[e.n] ELSE <<>>
                      [] e.k = "sec" -> IF e.n \in DOMAIN fv THEN Render(e.body, fv) ELSE <<>>
                      [] e.k = "inv" -> IF e.n \in DOMAIN fv THEN <<>> ELSE Render(e.body, fv)
                      [] e.k = "cloze" -> <<>>
                      [] e.k = "cloze_alt" ->
                            <<"<", "%", "c", "l", "o", "z", "e", ":">> \o e.n \o <<"%", ">">>
         IN  out \o Render(Tail(elems), fv)

(* (?!{field}\b)\b(\w)*{sentinel}+  searched anywhere in rendered *)
contains_other_fields(rendered, current_field, sentinel) ==
    \E p \in 0..Len(rendered) :
        /\ ~(StartsAt(rendered, p, current_field)
               /\ Boundary(rendered, p + Len(current_field)))
        /\ Boundary(rendered, p)
        /\ \E w \in 0..(Len(rendered) - p) :
              /\ \A i \in 1..w : IsWord(rendered[p + i])
              /\ StartsAt(rendered, p + w, sentinel)

(* ---------------------------------------------------------------------- *)
(* Model::req                                                              *)
(* ---------------------------------------------------------------------- *)
Ok(v) == [status |-> "ok", value |-> v, err |-> "none", arg |-> <<>>]
Err(e, a) == [status |-> "err", value |-> <<>>, err |-> e, arg |-> a]
Panic == [status |-> "panic", value |-> <<>>, err |-> "panic", arg |-> <<>>]

(* indices (0-based, ascending) of the enumerated entries that pass the filter *)
RECURSIVE AllModeOrds(_, _, _)
AllModeOrds(enum, rendered, i) ==
    IF i > Len(enum) THEN <<>>
    ELSE (IF ~contains_other_fields(rendered, Placeholder(enum[i]), <<SENT>>)
          THEN <<i - 1>> ELSE <<>>) \o AllModeOrds(enum, rendered, i + 1)

RECURSIVE AnyModeOrds(_, _, _)
AnyModeOrds(enum, rendered, i) ==
    IF i > Len(enum) THEN <<>>
    ELSE (IF Contains(rendered, Placeholder(enum[i]))
          THEN <<i - 1>> ELSE <<>>) \o AnyModeOrds(enum, rendered, i + 1)

Requirement(t, mode, ords) == [ord |-> t, mode |-> mode, fields |-> ords]

(* the loop of req over the templates; enum is the sequence of field names *)
(* in the order field_values is enumerated                                 *)
RECURSIVE ReqLoop(_, _, _, _)
ReqLoop(model, enum, t, acc) ==
    IF t >= num_templates(model) THEN Ok(acc)
    ELSE LET template == model.templates[t + 1]
             rendered == Render(template.qfmt, field_values(model))
             all_fields == AllModeOrds(enum, rendered, 1)
             any_fields == AnyModeOrds(enum, rendered, 1)
         IN  IF ~template.wellformed THEN Err("TemplateRendering", <<template.name>>)
             ELSE IF all_fields # <<>>
                  THEN ReqLoop(model, enum, t + 1,
                               Append(acc, Requirement(t, "all", all_fields)))
             ELSE IF any_fields = <<>> THEN Err("TemplateFormat", <<template.name>>)
             ELSE ReqLoop(model, enum, t + 1,
                          Append(acc, Requirement(t, "any", any_fields)))

(* iteration orders a HashMap keyed by the field names can have *)
HashOrders(model) == Perms(Range(model.fields))

(* core Model::req: the ordinals are positions in the HashMap iteration *)
req(model) == {ReqLoop(model, h, 0, <<>>) : h \in HashOrders(model)}

(* legacy Model::req: the ordinals are positions in the declared field list *)
legacy_req(model) == ReqLoop(model, model.fields, 0, <<>>)

(* ---------------------------------------------------------------------- *)
(* Cards                                                                   *)
(* ---------------------------------------------------------------------- *)
Card(ord, suspend) == [ord |-> ord, suspend |-> suspend]

QUEUE_NEW == 0
QUEUE_SUSPENDED == 0 - 1

with_suspended(card, suspend) == [card EXCEPT !.suspend = suspend]

queue_value_swapped(card) == IF card.suspend THEN QUEUE_NEW ELSE QUEUE_SUSPENDED

queue_value(card) == IF card.suspend THEN QUEUE_SUSPENDED ELSE QUEUE_NEW

(* iter.any(..) / iter.all(..) over fields[ord], short-circuiting, with the *)
(* index panic of fields[ord]; wantEmpty selects is_empty or !is_empty     *)
RECURSIVE IterAny(_, _, _)
IterAny(ords, fields, wantEmpty) ==
    IF ords = <<>> THEN "false"
    ELSE IF Head(ords) + 1 > Len(fields) THEN "panic"
    ELSE IF (fields[Head(ords) + 1] = <<>>) = wantEmpty THEN "true"
    ELSE IterAny(Tail(ords), fields, wantEmpty)

RECURSIVE IterAll(_, _, _)
IterAll(ords, fields, wantEmpty) ==
    IF ords = <<>> THEN "true"
    ELSE IF Head(ords) + 1 > Len(fields) THEN "panic"
    ELSE IF (fields[Head(ords) + 1] = <<>>) # wantEmpty THEN "false"
    ELSE IterAll(Tail(ords), fields, wantEmpty)

should_create_swapped(any_or_all, required_field_ords, fields) ==
    IF any_or_all = "any" THEN IterAll(required_field_ords, fields, FALSE)
    ELSE IterAny(required_field_ords, fields, FALSE)

should_create(any_or_all, required_field_ords, fields) ==
    IF any_or_all = "any" THEN IterAny(required_field_ords, fields, FALSE)
    ELSE IterAll(required_field_ords, fields, FALSE)

RECURSIVE BasicLoop(_, _, _)
BasicLoop(reqs, fields, cards) ==
    IF reqs = <<>> THEN Ok(cards)
    ELSE LET r == Head(reqs)
             c == should_create(r.mode, r.fields, fields)
         IN  IF r.mode \notin {"any", "all"} THEN Err("Validation", <<r.mode>>)
             ELSE IF c = "panic" THEN Panic
             ELSE BasicLoop(Tail(reqs), fields,
                            IF c = "true" THEN Append(cards, Card(r.ord, FALSE)) ELSE cards)

(* generate_basic_cards for one outcome r of model.req() *)
generate_basic_cards(r, fields) ==
    IF r.status # "ok" THEN r ELSE BasicLoop(r.value, fields, <<>>)

condition(any_or_all, required_field_ords, self_fields) ==
    IF any_or_all = "any" THEN IterAny(required_field_ords, self_fields, TRUE)
    ELSE IterAll(required_field_ords, self_fields, TRUE)

RECURSIVE FrontBackLoop(_, _, _)
FrontBackLoop(reqs, self_fields, rv) ==
    IF reqs = <<>> THEN Ok(rv)
    ELSE LET r == Head(reqs)
             c == condition(r.mode, r.fields, self_fields)
         IN  IF r.mode \notin {"any", "all"} \/ c = "panic" THEN Panic
             ELSE FrontBackLoop(Tail(reqs), self_fields,
                                IF c = "true" THEN Append(rv, Card(r.ord, FALSE)) ELSE rv)

front_back_cards(model, self_fields) ==
    LET r == legacy_req(model)
    IN  IF r.status # "ok" THEN r ELSE FrontBackLoop(r.value, self_fields, <<>>)

(* ---------------------------------------------------------------------- *)
(* Field values and cloze markers                                          *)
(* ---------------------------------------------------------------------- *)
Txt(txt) == [k |-> "txt", num |-> 0, pad |-> 0, s |-> txt]
(* the marker {{c<num>::payload}}, its number written with pad leading zeros *)
Mk(number, zeros, payload) == [k |-> "mk", num |-> number, pad |-> zeros, s |-> payload]

DigitChar(d) == CHOOSE c \in DigitChars : DigitVal(c) = d

RECURSIVE Decimal(_)
Decimal(n) ==
    IF n < 10 THEN <<DigitChar(n)>> ELSE Decimal(n \div 10) \o <<DigitChar(n % 10)>>

FlattenPiece(pc) ==
    IF pc.k = "txt" THEN pc.s
    ELSE <<"{", "{", "c">> \o [i \in 1..pc.pad |-> "0"] \o Decimal(pc.num)
         \o <<":", ":">> \o pc.s \o <<"}", "}">>

RECURSIVE Flatten(_)
Flatten(pieces) ==
    IF pieces = <<>> THEN <<>> ELSE FlattenPiece(Head(pieces)) \o Flatten(Tail(pieces))

(* length of the run of digits that starts after offset p *)
RECURSIVE DigitRun(_, _)
DigitRun(s, p) ==
    IF p < Len(s) /\ s[p + 1] \in DigitChars THEN 1 + DigitRun(s, p + 1) ELSE 0

(* .+? followed by }} : the least m >= 1 with }} at offset q + m, 0 if none *)
RECURSIVE LazyEnd(_, _, _)
LazyEnd(s, q, m) ==
    IF q + m + 2 > Len(s) THEN 0
    ELSE IF StartsAt(s, q + m, <<"}", "}">>) THEN m
    ELSE LazyEnd(s, q, m + 1)

(* (?s){{c(\d+)::.+?}} anchored at offset p *)
MatchAt(s, p) ==
    LET d == DigitRun(s, p + 3)
        q == p + 3 + d + 2
        m == LazyEnd(s, q, 1)
    IN  IF /\ StartsAt(s, p, <<"{", "{", "c">>)
           /\ d >= 1
           /\ StartsAt(s, p + 3 + d, <<":", ":">>)
           /\ m >= 1
        THEN [found |-> TRUE, group |-> SubSeq(s, p + 4, p + 3 + d), end |-> q + m + 2]
        ELSE [found |-> FALSE, group |-> <<>>, end |-> p]

(* re_findall for the marker pattern: captures of the successive *)
(* non-overlapping matches, leftmost first                        *)
RECURSIVE re_findall(_, _)
re_findall(s, from) ==
    IF from >= Len(s) THEN <<>>
    ELSE LET mt == MatchAt(s, from)
         IN  IF mt.found THEN <<mt.group>> \o re_findall(s, mt.end)
             ELSE re_findall(s, from + 1)

(* i64::from_str on a run of digits; the digit runs of the model are far *)
(* below the 19 digits at which the parse can fail                        *)
RECURSIVE from_str(_, _)
from_str(ds, acc) ==
    IF ds = <<>> THEN acc ELSE from_str(Tail(ds), 10 * acc + DigitVal(Head(ds)))

(* field names captured from the question format by the two cloze patterns *)
RECURSIVE cloze_replacements(_)
cloze_replacements(elems) ==
    IF elems = <<>> THEN {}
    ELSE LET e == Head(elems)
         IN  (IF e.k \in {"cloze", "cloze_alt"} THEN {e.n} ELSE {})
             \cup cloze_replacements(e.body)
             \cup cloze_replacements(Tail(elems))

(* position (1-based) of the first field of that name, 0 if there is none *)
RECURSIVE position(_, _, _)
position(names, field_name, i) ==
    IF i > Len(names) THEN 0
    ELSE IF names[i] = field_name THEN i
    ELSE position(names, field_name, i + 1)

updates_unshifted(field_value) ==
    LET found == re_findall(field_value, 0)
    IN  {m \in {from_str(found[i], 0) : i \in DOMAIN found} : m >= 0}

updates_unfiltered(field_value) ==
    LET found == re_findall(field_value, 0)
    IN  {from_str(found[i], 0) - 1 : i \in DOMAIN found}

updates(field_value) ==
    LET found == re_findall(field_value, 0)
    IN  {m \in {from_str(found[i], 0) - 1 : i \in DOMAIN found} : m >= 0}

(* the HashSet card_ords after the loop, or "panic" on an index out of range *)
card_ords(model, fields) ==
    LET names == cloze_replacements(model.templates[1].qfmt)
        idx(n) == position(model.fields, n, 1)
        value(n) == IF idx(n) = 0 THEN <<>> ELSE fields[idx(n)]
        ords == UNION {updates(value(n)) : n \in names}
    IN  IF \E n \in names : idx(n) > Len(fields) THEN [panic |-> TRUE, ords |-> {}]
        ELSE [panic |-> FALSE, ords |-> IF ords = {} THEN {0} ELSE ords]

CardsOf(ordSeq) == [i \in DOMAIN ordSeq |-> Card(ordSeq[i], FALSE)]

(* generate_cloze_cards: every iteration order of the HashSet is possible *)
generate_cloze_cards(model, fields) ==
    IF num_templates(model) = 0 THEN {Panic}
    ELSE IF card_ords(model, fields).panic THEN {Panic}
    ELSE {Ok(CardsOf(o)) : o \in Perms(card_ords(model, fields).ords)}

(* legacy cloze_cards: same scan, the index and the first template unchecked *)
cloze_cards(model, self_fields) ==
    IF num_templates(model) = 0 THEN {Panic}
    ELSE IF card_ords(model, self_fields).panic THEN {Panic}
    ELSE {Ok(CardsOf(o)) : o \in Perms(card_ords(model, self_fields).ords)}

(* ---------------------------------------------------------------------- *)
(* Notes                                                                   *)
(* ---------------------------------------------------------------------- *)
US == "\\x1F"

None == <<>>
Some(v) == <<v>>
unwrap_or_empty(opt, default) == IF opt = <<>> THEN <<>> ELSE opt[1]

unwrap_or(opt, default) == IF opt = <<>> THEN default ELSE opt[1]

(* the digest is kept symbolic: the hash of the joined byte string *)
guid_for(fields) == [kind |-> "blake3", of |-> Join(fields, <<US>>)]

GivenGuid(text) == [kind |-> "given", of |-> text]

validate_tags(tags) ==
    IF \E i \in DOMAIN tags : Contains(tags[i], <<" ">>)
    THEN Err("TagContainsWhitespace", <<>>) ELSE Ok(<<>>)

Note(m, f, sf, tg, gd, cs) ==
    [model |-> m, fields |-> f, sort_field |-> sf, tags |-> tg, guid |-> gd, cards |-> cs]

(* A construction outcome: res is what the constructor returns, req is the *)
(* outcome of the model.req() call it made (None when it made none)        *)
Outcome(r, x) == [req |-> r, res |-> x]

(* the match on model_type: the possible outcomes of card generation *)
CoreCards(model, fields) ==
    IF model.model_type = "Basic"
    THEN {Outcome(Some(r), generate_basic_cards(r, fields)) : r \in req(model)}
    ELSE {Outcome(None, c) : c \in generate_cloze_cards(model, fields)}

FieldCountCheck_short_only(model, fields) == num_fields(model) > Len(fields)

FieldCountCheck(model, fields) == num_fields(model) # Len(fields)

Note_new(model, fields) ==
    IF FieldCountCheck(model, fields)
    THEN {Outcome(None, Err("ModelFieldCountMismatch", <<num_fields(model), Len(fields)>>))}
    ELSE {Outcome(c.req,
                  IF c.res.status = "ok"
                  THEN Ok(<<Note(model, fields, FALSE, <<>>, guid_for(fields), c.res.value)>>)
                  ELSE c.res) : c \in CoreCards(model, fields)}

Note_with_options(model, fields, sort_field, tags, guid) ==
    LET tagv == unwrap_or(tags, <<>>)
    IN  IF validate_tags(tagv).status # "ok" THEN {Outcome(None, validate_tags(tagv))}
        ELSE IF FieldCountCheck(model, fields)
        THEN {Outcome(None,
                      Err("ModelFieldCountMismatch", <<num_fields(model), Len(fields)>>))}
        ELSE {Outcome(c.req,
                      IF c.res.status = "ok"
                      THEN Ok(<<Note(model, fields, unwrap_or(sort_field, FALSE), tagv,
                                     unwrap_or(guid, guid_for(fields)), c.res.value)>>)
                      ELSE c.res) : c \in CoreCards(model, fields)}

LegacyCards(model, fields) ==
    IF model.model_type = "Basic"
    THEN {Outcome(Some(legacy_req(model)), front_back_cards(model, fields))}
    ELSE {Outcome(None, c) : c \in cloze_cards(model, fields)}

Legacy_Note_new(model, fields) ==
    {Outcome(c.req,
             IF c.res.status = "ok"
             THEN Ok(<<Note(model, fields, FALSE, <<>>, guid_for(fields), c.res.value)>>)
             ELSE c.res) : c \in LegacyCards(model, fields)}

Legacy_Note_new_with_options(model, fields, sort_field, tags, guid) ==
    LET tagv == unwrap_or(tags, <<>>)
    IN  IF validate_tags(tagv).status # "ok" THEN {Outcome(None, validate_tags(tagv))}
        ELSE {Outcome(c.req,
                      IF c.res.status = "ok"
                      THEN Ok(<<Note(model, fields, unwrap_or(sort_field, FALSE), tagv,
                                     unwrap_or(guid, guid_for(fields)), c.res.value)>>)
                      ELSE c.res) : c \in LegacyCards(model, fields)}

(* ---------------------------------------------------------------------- *)
(* Decks and packages                                                      *)
(* ---------------------------------------------------------------------- *)
(* a HashMap is a function on its keys *)
EmptyMap == <<>>

MapInsert(m, key, v) == [x \in (DOMAIN m) \cup {key} |-> IF x = key THEN v ELSE m[x]]

Deck_new(i, nm, desc) ==
    [id |-> i, name |-> nm, description |-> desc, notes |-> <<>>, models |-> EmptyMap]

add_note_keep_first(deck, note) ==
    [deck EXCEPT !.models = IF note.model.id \in DOMAIN deck.models THEN deck.models
                            ELSE MapInsert(deck.models, note.model.id, note.model),
                 !.notes = Append(deck.notes, note)]

add_note(deck, note) ==
    [deck EXCEPT !.models = MapInsert(deck.models, note.model.id, note.model),
                 !.notes = Append(deck.notes, note)]

RECURSIVE add_notes(_, _)
add_notes(deck, notes) ==
    IF notes = <<>> THEN deck ELSE add_notes(add_note(deck, Head(notes)), Tail(notes))

Package_new_unchecked(deck_list, media_files) ==
    Ok(<<[decks |-> deck_list, media_files |-> media_files]>>)

Package_new(deck_list, media_files) ==
    IF deck_list = <<>> THEN Err("NoDecks", <<>>)
    ELSE Ok(<<[decks |-> deck_list, media_files |-> media_files]>>)

(* ---------------------------------------------------------------------- *)
(* Storage                                                                 *)
(* ---------------------------------------------------------------------- *)
USN_UNKNOWN == 0 - 1

format_fields(note) == Join(note.fields, <<US>>)

format_tags_unpadded(note) == Join(note.tags, <<" ">>)

format_tags(note) == <<" ">> \o Join(note.tags, <<" ">>) \o <<" ">>

(* RangeFrom<usize>::next *)
id_gen_next_stuck(gen) == [id |-> gen, gen |-> gen]

id_gen_next(gen) == [id |-> gen, gen |-> gen + 1]

NoteRow(note, note_id, timestamp) ==
    [tbl |-> "notes", id |-> note_id, guid |-> note.guid, mid |-> note.model.id,
     mod |-> timestamp, usn |-> USN_UNKNOWN, tags |-> format_tags(note),
     flds |-> format_fields(note), sfld |-> FALSE, csum |-> 0, flags |-> 0, data |-> <<>>]

(* write_note_to_db: the row inserted and the generator afterwards *)
write_note_to_db(note, timestamp, deck_id, gen) ==
    LET n == id_gen_next(gen)
    IN  [row |-> NoteRow(note, n.id, timestamp), note_id |-> n.id, gen |-> n.gen]

CardRow(card, card_id, note_id, deck_id, timestamp) ==
    [tbl |-> "cards", id |-> card_id, nid |-> note_id, did |-> deck_id, ord |-> card.ord,
     mod |-> timestamp, usn |-> USN_UNKNOWN, type |-> 0, queue |-> queue_value(card),
     due |-> 0, ivl |-> 0, factor |-> 0, reps |-> 0, lapses |-> 0, left |-> 0,
     odue |-> 0, odid |-> 0, flags |-> 0, data |-> <<>>]

write_card_to_db_swapped(card, timestamp, deck_id, note_id, gen) ==
    LET n == id_gen_next(gen)
    IN  [row |-> CardRow(card, n.id, deck_id, note_id, timestamp), gen |-> n.gen]

write_card_to_db(card, timestamp, deck_id, note_id, gen) ==
    LET n == id_gen_next(gen)
    IN  [row |-> CardRow(card, n.id, note_id, deck_id, timestamp), gen |-> n.gen]

(* the inner loop of write_deck_to_db over the cards of one note *)
RECURSIVE WriteCards(_, _, _, _, _)
WriteCards(cards, timestamp, deck_id, note_id, acc) ==
    IF cards = <<>> THEN acc
    ELSE LET w == write_card_to_db(Head(cards), timestamp, deck_id, note_id, acc.gen)
         IN  WriteCards(Tail(cards), timestamp, deck_id, note_id,
                        [rows |-> Append(acc.rows, w.row), gen |-> w.gen])

(* the loop of write_deck_to_db over the notes of the deck *)
RECURSIVE WriteNotes(_, _, _, _)
WriteNotes(notes, timestamp, deck_id, acc) ==
    IF notes = <<>> THEN acc
    ELSE LET w == write_note_to_db(Head(notes), timestamp, deck_id, acc.gen)
             c == WriteCards(Head(notes).cards, timestamp, deck_id, w.note_id,
                             [rows |-> Append(acc.rows, w.row), gen |-> w.gen])
         IN  WriteNotes(Tail(notes), timestamp, deck_id, c)

deck_to_db_entry(deck) == [id |-> deck.id, name |-> deck.name, desc |-> deck.description]

write_deck_registry_keep_first(deck, registry) ==
    IF deck.id \in DOMAIN registry THEN registry
    ELSE MapInsert(registry, deck.id, deck_to_db_entry(deck))

(* decks::write_deck_to_db: the deck registry afterwards *)
write_deck_registry(deck, registry) == MapInsert(registry, deck.id, deck_to_db_entry(deck))

model_to_db_entry_without_fields(model, timestamp, deck_id) ==
    {[id |-> model.id, did |-> deck_id, flds |-> <<>>,
      tmpls |-> model.templates, type |-> IF model.model_type = "Basic" THEN 0 ELSE 1,
      req |-> IF r.status = "ok" THEN r.value ELSE <<>>, mod |-> timestamp] :
        r \in req(model)}

(* the possible database entries of a model: req() is computed afresh and *)
(* an error of req() is replaced by the empty list                         *)
model_to_db_entry(model, timestamp, deck_id) ==
    {[id |-> model.id, did |-> deck_id, flds |-> model.fields,
      tmpls |-> model.templates, type |-> IF model.model_type = "Basic" THEN 0 ELSE 1,
      req |-> IF r.status = "ok" THEN r.value ELSE <<>>, mod |-> timestamp] :
        r \in req(model)}

WriteModels_keep_existing(models, timestamp, deck_id, registry) ==
    LET fresh == (DOMAIN models) \ (DOMAIN registry)
        entries(k) == model_to_db_entry(models[k], timestamp, deck_id)
        choices == {f \in [fresh -> UNION {entries(k) : k \in fresh}] :
                      \A k \in fresh : f[k] \in entries(k)}
    IN  {[k \in (DOMAIN registry) \cup fresh |->
            IF k \in fresh THEN f[k] ELSE registry[k]] : f \in choices}

(* the model registries the loop over deck.models() can leave: every model *)
(* of the deck is inserted under its id, with one of its possible entries  *)
WriteModels(models, timestamp, deck_id, registry) ==
    LET entries(k) == model_to_db_entry(models[k], timestamp, deck_id)
        choices == {f \in [DOMAIN models -> UNION {entries(k) : k \in DOMAIN models}] :
                      \A k \in DOMAIN models : f[k] \in entries(k)}
    IN  {[k \in (DOMAIN registry) \cup (DOMAIN models) |->
            IF k \in DOMAIN models THEN f[k] ELSE registry[k]] : f \in choices}

DefaultDeckEntry ==
    [id |-> 1, name |-> <<"D", "e", "f", "a", "u", "l", "t">>, desc |-> <<>>]

(* the database after init_schema *)
InitDb == [rows |-> <<>>, decks |-> [k \in {1} |-> DefaultDeckEntry], models |-> EmptyMap]

(* the databases one committed write_deck_to_db transaction can leave *)
write_deck_to_db(deck, database, timestamp, gen) ==
    LET w == WriteNotes(deck.notes, timestamp, deck.id, [rows |-> database.rows, gen |-> gen])
    IN  {[db |-> [rows |-> w.rows,
                  decks |-> write_deck_registry(deck, database.decks),
                  models |-> mreg],
          gen |-> w.gen] :
            mreg \in WriteModels(deck.models, timestamp, deck.id, database.models)}

(* the working copies an open write_deck_to_db transaction passes through: *)
(* nothing written yet, the deck registry written, the model registry      *)
(* written, and every prefix of the note and card rows inserted            *)
TransactionSteps(deck, database, timestamp, gen) ==
    LET w == WriteNotes(deck.notes, timestamp, deck.id, [rows |-> database.rows, gen |-> gen])
        withDeck == [database EXCEPT !.decks = write_deck_registry(deck, database.decks)]
    IN  {database, withDeck}
        \cup {[withDeck EXCEPT !.models = mreg, !.rows = SubSeq(w.rows, 1, n)] :
                 mreg \in WriteModels(deck.models, timestamp, deck.id, database.models),
                 n \in Len(database.rows)..Len(w.rows)}

(* a `?` leaves write_deck_to_db before commit(): the transaction is        *)
(* dropped and the database is what it was when the transaction began       *)
transaction_drop_committing(snapshot, working) == working

transaction_drop(snapshot, working) == snapshot

(* ---------------------------------------------------------------------- *)
(* Archive                                                                 *)
(* ---------------------------------------------------------------------- *)
DATABASE_FILENAME == <<"c", "o", "l", "l", "e", "c", "t", "i", "o", "n", ".", "a", "n", "k", "i", "2">>

MEDIA_MAPPING_FILENAME == <<"c", "o", "l", "l", "e", "c", "t", "i", "o", "n", ".", "m", "e", "d", "i", "a">>

MEDIA_DIRNAME == <<"m", "e", "d", "i", "a">>

(* the media index: every file name mapped to its entry name in the archive *)
prepare_media_files_mapping(media_files) ==
    [name \in DOMAIN media_files |-> MEDIA_DIRNAME \o <<"/">> \o name]

(* serde_json::to_string of the index: an object with these members *)
MediaIndexJson(mapping) == [kind |-> "json_object", members |-> mapping]

ZipEntry(nm, bytes) == [name |-> nm, data |-> bytes]

(* the entries for the media files, in the order order lists their names *)
MediaEntries(media_files, order) ==
    [i \in DOMAIN order |->
        ZipEntry(MEDIA_DIRNAME \o <<"/">> \o order[i], media_files[order[i]])]

write_archive_without_media(database, media_files) ==
    {<<ZipEntry(DATABASE_FILENAME, database),
       ZipEntry(MEDIA_MAPPING_FILENAME,
                MediaIndexJson(prepare_media_files_mapping(media_files)))>>}

(* the archives write_to_file can produce from the database file: the      *)
(* media files are written in the iteration order of their HashMap         *)
write_archive(database, media_files) ==
    {<<ZipEntry(DATABASE_FILENAME, database),
       ZipEntry(MEDIA_MAPPING_FILENAME,
                MediaIndexJson(prepare_media_files_mapping(media_files)))>>
       \o MediaEntries(media_files, order) : order \in Perms(DOMAIN media_files)}

(* ---------------------------------------------------------------------- *)
(* Inputs                                                                  *)
(* ---------------------------------------------------------------------- *)
BasicModel == Model(1, <<Front, Back>>, <<Template("Card 1", <<Var(Front)>>)>>, "Basic")

ReversedModel ==
    Model(2, <<Front, Back>>,
          <<Template("Card 1", <<Var(Front)>>), Template("Card 2", <<Var(Back)>>)>>, "Basic")

OptionalReversedModel ==
    Model(3, <<Front, Back, AddReverse>>,
          <<Template("Card 1", <<Var(Front)>>),
            Template("Card 2", <<Sec(AddReverse, <<Var(Back)>>)>>)>>, "Basic")

BothModel ==
    Model(4, <<Front, Back>>,
          <<Template("Card 1", <<Var(Front), Lit(<<" ", "-", " ">>), Var(Back)>>)>>, "Basic")

ClozeModel ==
    Model(5, <<Text, Extra>>,
          <<Template("Cloze", <<ClozeDir(Text)>>), Template("Other", <<ClozeDir(Extra)>>)>>,
          "Cloze")

ClozeAltModel ==
    Model(6, <<Text, Extra>>,
          <<Template("Cloze", <<ClozeAlt(Text), Lit(<<" ">>), ClozeDir(Ghost)>>)>>, "Cloze")

NoFieldModel == Model(7, <<>>, <<Template("Card 1", <<Lit(<<"x">>)>>)>>, "Basic")

BrokenModel == Model(8, <<Front>>, <<BrokenTemplate("Card 1")>>, "Basic")

NoTemplateClozeModel == Model(9, <<Text>>, <<>>, "Cloze")

(* a Basic model whose only question format is empty *)
EmptyQfmtModel == Model(10, <<Front, Back>>, <<Template("Card 1", <<>>)>>, "Basic")

Models ==
    {BasicModel, ReversedModel, OptionalReversedModel, BothModel, ClozeModel,
     ClozeAltModel, NoFieldModel, BrokenModel, NoTemplateClozeModel, EmptyQfmtModel}

(* field values, given by their pieces *)
Values ==
    {<<>>,
     <<Txt(<<"x">>)>>,
     <<Mk(1, 0, <<"A">>), Txt(<<" ">>), Mk(2, 0, <<"B", "\n", "b">>)>>,
     <<Mk(1, 0, <<"A">>), Txt(<<"x">>), Mk(1, 1, <<"B">>)>>,
     <<Mk(0, 0, <<"Z">>)>>,
     <<Mk(13, 0, <<"C", ":", ":", "h">>)>>}

(* cloze markers matter to Cloze models only *)
ValuesFor(model) ==
    IF model.model_type = "Cloze" THEN Values
    ELSE {<<>>, <<Txt(<<"x">>)>>, <<Mk(1, 0, <<"A">>)>>}

(* lists of field values: as long as the model's field list, one shorter, *)
(* or one longer                                                           *)
FieldLists(model) ==
    UNION {[1..n -> ValuesFor(model)] :
             n \in {k \in (num_fields(model) - 1)..(num_fields(model) + 1) : k >= 0}}

FlattenAll(specs) == [i \in DOMAIN specs |-> Flatten(specs[i])]

Tags == {<<"t">>, <<"a", " ", "b">>, <<"a", "\t", "b">>}

TagLists == UNION {[1..n -> Tags] : n \in 0..MaxTags}

TagOptions == {None} \cup {Some(t) : t \in TagLists}

GuidOptions == {None, Some(GivenGuid(<<"g">>))}

SortFieldOptions == {None, Some(TRUE)}

(* ---------------------------------------------------------------------- *)
(* State                                                                   *)
(* ---------------------------------------------------------------------- *)
VARIABLES last, decks, pkg, exp, db

vars == <<last, decks, pkg, exp, db>>

Call(o, m, sp, sf, tg, gd, out) ==
    [op |-> o, model |-> m, specs |-> sp, sort_field |-> sf, tags |-> tg, guid |-> gd,
     req |-> out.req, res |-> out.res]

NoCall == Call("none", BasicModel, <<>>, None, None, None, Outcome(None, Err("none", <<>>)))

NoPackage == [called |-> FALSE, deck_list |-> <<>>, media_files |-> EmptyMap,
              res |-> Err("none", <<>>)]

Idle == [phase |-> "idle", k |-> 0, gen |-> 0, timestamp |-> 0, archive |-> <<>>]

NoDb == [rows |-> <<>>, decks |-> EmptyMap, models |-> EmptyMap]

Init ==
    /\ last = NoCall
    /\ decks = <<>>
    /\ pkg = NoPackage
    /\ exp = Idle
    /\ db = NoDb

CallNoteNew ==
    /\ last.op = "none"
    /\ \E model \in Models : \E specs \in FieldLists(model) :
      \E res \in Note_new(model, FlattenAll(specs)) :
        /\ last' = Call("Note::new", model, specs, None, None, None, res)
        /\ UNCHANGED <<decks, pkg, exp, db>>

CallNoteWithOptions ==
    /\ last.op = "none"
    /\ \E model \in Models : \E specs \in FieldLists(model) :
      \E sf \in SortFieldOptions, tags \in TagOptions, guid \in GuidOptions :
        \E res \in Note_with_options(model, FlattenAll(specs), sf, tags, guid) :
          /\ last' = Call("Note::with_options", model, specs, sf, tags, guid, res)
          /\ UNCHANGED <<decks, pkg, exp, db>>

CallLegacyNoteNew ==
    /\ last.op = "none"
    /\ \E model \in Models : \E specs \in FieldLists(model) :
      \E res \in Legacy_Note_new(model, FlattenAll(specs)) :
        /\ last' = Call("legacy::Note::new", model, specs, None, None, None, res)
        /\ UNCHANGED <<decks, pkg, exp, db>>

CallLegacyNoteNewWithOptions ==
    /\ last.op = "none"
    /\ \E model \in Models : \E specs \in FieldLists(model) :
      \E sf \in SortFieldOptions, tags \in TagOptions, guid \in GuidOptions :
        \E res \in Legacy_Note_new_with_options(model, FlattenAll(specs), sf, tags, guid) :
          /\ last' = Call("legacy::Note::new_with_options", model, specs, sf, tags, guid, res)
          /\ UNCHANGED <<decks, pkg, exp, db>>

NextNote ==
    \/ CallNoteNew
    \/ CallNoteWithOptions
    \/ CallLegacyNoteNew
    \/ CallLegacyNoteNewWithOptions

SpecNote == Init /\ [][NextNote]_vars

(* ---------------------------------------------------------------------- *)
(* Repeated calls of Model::req on one model                               *)
(* ---------------------------------------------------------------------- *)
(* model.req(): every call builds its own HashMap; last.req is what this   *)
(* call returned and last.res lists what the calls so far returned         *)
CallModelReq ==
    /\ last.op \in {"none", "Model::req"}
    /\ \E model \in Models :
         /\ last.op = "Model::req" => model = last.model
         /\ LET before == IF last.op = "none" THEN <<>> ELSE last.res.value
            IN  /\ Len(before) < MaxCalls
                /\ \E r \in req(model) :
                     last' = Call("Model::req", model, <<>>, None, None, None,
                                  Outcome(Some(r), Ok(Append(before, r))))
    /\ UNCHANGED <<decks, pkg, exp, db>>

NextReq == CallModelReq

SpecReq == Init /\ [][NextReq]_vars

(* ---------------------------------------------------------------------- *)
(* Calls of guid_for                                                       *)
(* ---------------------------------------------------------------------- *)
GuidValues == {<<>>, <<"a">>, <<"b">>, <<"a", US, "b">>}

GuidFieldLists == UNION {[1..n -> GuidValues] : n \in 0..2}

(* guid_for(&fields): last.res lists the calls so far, each with its       *)
(* argument and the guid it returned                                       *)
CallGuidFor ==
    /\ last.op \in {"none", "guid_for"}
    /\ LET before == IF last.op = "none" THEN <<>> ELSE last.res.value
       IN  /\ Len(before) < MaxCalls
           /\ \E fields \in GuidFieldLists :
                last' = Call("guid_for", BasicModel, <<>>, None, None, None,
                             Outcome(None, Ok(Append(before,
                                 [fields |-> fields, guid |-> guid_for(fields)]))))
    /\ UNCHANGED <<decks, pkg, exp, db>>

NextGuid == CallGuidFor

SpecGuid == Init /\ [][NextGuid]_vars

(* ---------------------------------------------------------------------- *)
(* Building decks, packaging and exporting                                 *)
(* ---------------------------------------------------------------------- *)
DeckIds == {1, 2}

DeckName(n) == <<"D", "e", "c", "k", " ">> \o Decimal(n)

(* a second model under the id of BasicModel, with one field only *)
RevisedBasicModel == Model(1, <<Front>>, <<Template("Card 1", <<Var(Front)>>)>>, "Basic")

(* the notes a client adds to its decks *)
ExportInputs ==
    {[model |-> BasicModel, specs |-> <<(<<Txt(<<"x">>)>>), <<Txt(<<"y">>)>>>>],
     [model |-> RevisedBasicModel, specs |-> <<(<<>>)>>],
     [model |-> ClozeModel,
      specs |-> <<(<<Mk(1, 0, <<"A">>), Txt(<<" ">>), Mk(2, 0, <<"B">>)>>), <<>>>>]}

ExportNotes ==
    UNION {{o.res.value[1] : o \in {x \in Note_new(i.model, FlattenAll(i.specs)) :
                                       x.res.status = "ok"}} : i \in ExportInputs}

MediaMaps ==
    {EmptyMap,
     [n \in {<<"a", ".", "p", "n", "g">>, <<"b">>} |-> IF n = <<"b">> THEN <<>> ELSE <<137, 80>>]}

Timestamps == {1700}

RECURSIVE TotalNotes(_)
TotalNotes(ds) == IF ds = <<>> THEN 0 ELSE Len(Head(ds).notes) + TotalNotes(Tail(ds))

DeckNew ==
    /\ ~pkg.called
    /\ Len(decks) < MaxDecks
    /\ \E i \in DeckIds :
         decks' = Append(decks, Deck_new(i, DeckName(Len(decks) + 1), <<"d">>))
    /\ UNCHANGED <<last, pkg, exp, db>>

DeckAddNote ==
    /\ ~pkg.called
    /\ TotalNotes(decks) < MaxNotes
    /\ \E d \in DOMAIN decks : \E note \in ExportNotes :
         decks' = [decks EXCEPT ![d] = add_note(decks[d], note)]
    /\ UNCHANGED <<last, pkg, exp, db>>

(* deck.add_notes(vec![..]) *)
DeckAddNotes ==
    /\ ~pkg.called
    /\ \E d \in DOMAIN decks : \E n \in 0..(MaxNotes - TotalNotes(decks)) :
         \E notes \in [1..n -> ExportNotes] :
            decks' = [decks EXCEPT ![d] = add_notes(decks[d], notes)]
    /\ UNCHANGED <<last, pkg, exp, db>>

CallPackageNew ==
    /\ ~pkg.called
    /\ \E media \in MediaMaps :
         pkg' = [called |-> TRUE, deck_list |-> decks, media_files |-> media,
                 res |-> Package_new(decks, media)]
    /\ UNCHANGED <<last, decks, exp, db>>

Package == pkg.res.value[1]

(* write_to_file up to the loop over the decks: schema, generator, timestamp *)
ExportBegin ==
    /\ pkg.called
    /\ pkg.res.status = "ok"
    /\ exp.phase = "idle"
    /\ \E ts \in Timestamps :
         exp' = [exp EXCEPT !.phase = "decks", !.k = 1, !.gen = 0, !.timestamp = ts]
    /\ db' = InitDb
    /\ UNCHANGED <<last, decks, pkg>>

(* one iteration of the loop: a committed write_deck_to_db transaction *)
ExportDeck ==
    /\ exp.phase = "decks"
    /\ exp.k <= Len(Package.decks)
    /\ \E w \in write_deck_to_db(Package.decks[exp.k], db, exp.timestamp, exp.gen) :
         /\ db' = w.db
         /\ exp' = [exp EXCEPT !.k = exp.k + 1, !.gen = w.gen]
    /\ UNCHANGED <<last, decks, pkg>>

(* a statement of the transaction fails: the transaction is dropped, which *)
(* rolls it back, and write_to_file returns the error                      *)
ExportDeckFails ==
    /\ exp.phase = "decks"
    /\ exp.k <= Len(Package.decks)
    /\ \E working \in TransactionSteps(Package.decks[exp.k], db, exp.timestamp, exp.gen) :
         db' = transaction_drop(db, working)
    /\ exp' = [exp EXCEPT !.phase = "failed"]
    /\ UNCHANGED <<last, decks, pkg>>

(* the rest of write_to_file: the archive is written *)
ExportArchive ==
    /\ exp.phase = "decks"
    /\ exp.k > Len(Package.decks)
    /\ \E archive \in write_archive(db, Package.media_files) :
         exp' = [exp EXCEPT !.phase = "done", !.archive = archive]
    /\ UNCHANGED <<last, decks, pkg, db>>

Next ==
    \/ DeckNew
    \/ DeckAddNote
    \/ DeckAddNotes
    \/ CallPackageNew
    \/ ExportBegin
    \/ ExportDeck
    \/ ExportDeckFails
    \/ ExportArchive

Spec == Init /\ [][Next]_vars

(* ---------------------------------------------------------------------- *)
(* A client of the storage layer that writes card rows one by one          *)
(* ---------------------------------------------------------------------- *)
CardOrdinals == {0, 1}

(* write_card_to_db(&card, &transaction, timestamp, deck_id, note_id, &mut id_gen): *)
(* last.res holds the cards written so far, db.rows their rows            *)
CallWriteCardToDb ==
    /\ last.op \in {"none", "write_card_to_db"}
    /\ Len(db.rows) < MaxCalls
    /\ \E ord \in CardOrdinals, created \in BOOLEAN, suspend \in BOOLEAN, deck_id \in DeckIds,
          ts \in Timestamps :
         LET card == with_suspended(Card(ord, created), suspend)
             w == write_card_to_db(card, ts, deck_id, 0, exp.gen)
             before == IF last.op = "none" THEN <<>> ELSE last.res.value
         IN  /\ db' = [db EXCEPT !.rows = Append(db.rows, w.row)]
             /\ exp' = [exp EXCEPT !.gen = w.gen]
             /\ last' = [last EXCEPT !.op = "write_card_to_db",
                                     !.res = Ok(Append(before, card))]
    /\ UNCHANGED <<decks, pkg>>

NextCard == CallWriteCardToDb

SpecCard == Init /\ [][NextCard]_vars

(* ---------------------------------------------------------------------- *)
(* A client that builds one note, adjusts it and exports it                *)
(* ---------------------------------------------------------------------- *)
with_sort_field(note, sort_field) == [note EXCEPT !.sort_field = sort_field]

with_tags(note, tags) == [note EXCEPT !.tags = tags]

with_tag(note, tag) == [note EXCEPT !.tags = Append(note.tags, tag)]

with_guid_rehashed(note, guid) == [note EXCEPT !.guid = guid_for(note.fields)]

with_guid(note, guid) == [note EXCEPT !.guid = guid]

(* what a caller does to the model behind the &mut Model of model_mut *)
ModelEdits == {"push_field", "clear_templates"}

EditModel(model, edit) ==
    IF edit = "push_field" THEN [model EXCEPT !.fields = Append(model.fields, Ghost)]
    ELSE [model EXCEPT !.templates = <<>>]

model_mut_regenerating(note, edit) ==
    [note EXCEPT !.model = EditModel(note.model, edit), !.cards = <<>>]

model_mut(note, edit) == [note EXCEPT !.model = EditModel(note.model, edit)]

(* a Cloze model whose only template does not parse *)
BrokenClozeModel == Model(11, <<Text>>, <<BrokenTemplate("Cloze")>>, "Cloze")

BuilderInputs ==
    {[model |-> ReversedModel, specs |-> <<(<<Txt(<<"x">>)>>), <<Txt(<<"y">>)>>>>],
     [model |-> ClozeModel,
      specs |-> <<(<<Mk(1, 0, <<"A">>), Txt(<<" ">>), Mk(2, 0, <<"B">>)>>), <<>>>>],
     [model |-> BrokenClozeModel, specs |-> <<(<<Txt(<<"x">>)>>)>>]}

BuilderTags == {<<"t">>, <<"a", " ", "b">>}

(* the builders can take a note one tag beyond what a constructor is given *)
MaxBuilderTags == MaxTags + 1

BuilderTagLists == UNION {[1..n -> BuilderTags] : n \in 0..MaxBuilderTags}

Guids == {GivenGuid(<<"h">>)}

(* Note::with_options(..).unwrap(): last holds the note being built and, in *)
(* guid, the guid most recently supplied for it                             *)
BuildNote ==
    /\ last.op = "none"
    /\ \E i \in BuilderInputs, guid \in GuidOptions :
         \E out \in Note_with_options(i.model, FlattenAll(i.specs), None, None, guid) :
           /\ out.res.status = "ok"
           /\ last' = Call("Note::with_options", i.model, i.specs, None, None, guid, out)
    /\ UNCHANGED <<decks, pkg, exp, db>>

Building == last.op = "Note::with_options"

Built == last.res.value[1]

WithSortField ==
    /\ Building
    /\ \E b \in BOOLEAN :
         last' = [last EXCEPT !.res = Ok(<<with_sort_field(Built, b)>>)]
    /\ UNCHANGED <<decks, pkg, exp, db>>

WithTags ==
    /\ Building
    /\ \E tags \in BuilderTagLists :
         last' = [last EXCEPT !.res = Ok(<<with_tags(Built, tags)>>)]
    /\ UNCHANGED <<decks, pkg, exp, db>>

WithTag ==
    /\ Building
    /\ Len(Built.tags) < MaxBuilderTags
    /\ \E tag \in BuilderTags :
         last' = [last EXCEPT !.res = Ok(<<with_tag(Built, tag)>>)]
    /\ UNCHANGED <<decks, pkg, exp, db>>

WithGuid ==
    /\ Building
    /\ \E g \in Guids :
         last' = [last EXCEPT !.guid = Some(g), !.res = Ok(<<with_guid(Built, g)>>)]
    /\ UNCHANGED <<decks, pkg, exp, db>>

(* note.model_mut() followed by one edit of the model *)
ModelMut ==
    /\ Building
    /\ Built.model = last.model
    /\ \E edit \in ModelEdits : last' = [last EXCEPT !.res = Ok(<<model_mut(Built, edit)>>)]
    /\ UNCHANGED <<decks, pkg, exp, db>>

(* the client's one deck *)
BuilderDeckNew ==
    /\ decks = <<>>
    /\ \E i \in DeckIds : decks' = <<Deck_new(i, DeckName(1), <<"d">>)>>
    /\ UNCHANGED <<last, pkg, exp, db>>

(* Package::new(vec![deck], HashMap::new()) *)
BuilderPackageNew ==
    /\ ~pkg.called
    /\ decks # <<>>
    /\ pkg' = [called |-> TRUE, deck_list |-> decks, media_files |-> EmptyMap,
               res |-> Package_new(decks, EmptyMap)]
    /\ UNCHANGED <<last, decks, exp, db>>

(* deck.add_note(note): the note moves into the deck *)
DeckAddBuilt ==
    /\ Building
    /\ ~pkg.called
    /\ \E d \in DOMAIN decks :
         decks' = [decks EXCEPT ![d] = add_note(decks[d], Built)]
    /\ last' = [last EXCEPT !.op = "Deck::add_note"]
    /\ UNCHANGED <<pkg, exp, db>>

(* deck.notes_mut()[i].model_mut() followed by one edit of the model *)
NotesMutModelMut ==
    /\ ~pkg.called
    /\ \E d \in DOMAIN decks : \E i \in DOMAIN decks[d].notes : \E edit \in ModelEdits :
         /\ decks[d].notes[i].model = last.model
         /\ decks' = [decks EXCEPT ![d].notes[i] = model_mut(decks[d].notes[i], edit)]
    /\ UNCHANGED <<last, pkg, exp, db>>

NextBuilder ==
    \/ BuildNote
    \/ WithSortField
    \/ WithTags
    \/ WithTag
    \/ WithGuid
    \/ ModelMut
    \/ BuilderDeckNew
    \/ DeckAddBuilt
    \/ NotesMutModelMut
    \/ BuilderPackageNew
    \/ ExportBegin
    \/ ExportDeck
    \/ ExportDeckFails
    \/ ExportArchive

SpecBuilder == Init /\ [][NextBuilder]_vars


(* ---------------------------------------------------------------------- *)
(* Properties of the Note constructors                                     *)
(* ---------------------------------------------------------------------- *)
CoreOps == {"Note::new", "Note::with_options"}
LegacyOps == {"legacy::Note::new", "legacy::Note::new_with_options"}

NonEmpty(i) == Flatten(last.specs[i + 1]) # <<>>

(* the requirement is met by the supplied field values *)
Met(r) ==
    \/ r.mode = "all" /\ \A i \in Range(r.fields) : NonEmpty(i)
    \/ r.mode = "any" /\ \E i \in Range(r.fields) : NonEmpty(i)

CardOrds(cards) == [i \in DOMAIN cards |-> cards[i].ord]

MetOrds(reqs) == LET ords == [i \in DOMAIN reqs |-> reqs[i].ord]
                     keep(o) == \E i \in DOMAIN reqs : reqs[i].ord = o /\ Met(reqs[i])
                 IN  SelectSeq(ords, keep)

ResultNote == last.res.value[1]

(* C1: a core Note of a Basic model whose req() succeeded holds, in        *)
(* requirement order, one unsuspended card for each requirement that the   *)
(* field values meet (all listed fields non-empty under "all", at least    *)
(* one under "any") and no other card.                                     *)
C1_BasicCardsFollowReq ==
    (/\ last.op \in CoreOps
     /\ last.model.model_type = "Basic"
     /\ last.req # None
     /\ last.req[1].status = "ok")
    => /\ last.res.status = "ok"
       /\ CardOrds(ResultNote.cards) = MetOrds(last.req[1].value)
       /\ \A i \in DOMAIN ResultNote.cards : ~ResultNote.cards[i].suspend

C1_Witness ==
    /\ last.op = "Note::new"
    /\ last.model = BothModel
    /\ last.req # None
    /\ last.req[1].status = "ok"
    /\ last.req[1].value[1].mode = "any"
    /\ ~NonEmpty(0)
    /\ NonEmpty(1)
    /\ last.res.status = "ok"
    /\ Len(ResultNote.cards) = 1

(* C2: with fields [Front, Back] and the single question format {{Front}}, *)
(* Note::new yields exactly one card (ordinal 0) when front is non-empty   *)
(* and no card when front is empty, whatever back holds.                   *)
C2_FrontDecides ==
    (/\ last.op = "Note::new"
     /\ last.model = BasicModel
     /\ Len(last.specs) = 2)
    => /\ last.res.status = "ok"
       /\ CardOrds(ResultNote.cards) = (IF NonEmpty(0) THEN <<0>> ELSE <<>>)

(* C3: the legacy constructors emit a card for a requirement iff the field *)
(* values meet it (all listed non-empty under "all", one under "any").     *)
C3_LegacyCardsFollowReq ==
    (/\ last.op \in LegacyOps
     /\ last.model.model_type = "Basic"
     /\ Len(last.specs) = num_fields(last.model)
     /\ last.req # None
     /\ last.req[1].status = "ok")
    => /\ last.res.status = "ok"
       /\ CardOrds(ResultNote.cards) = MetOrds(last.req[1].value)

(* marker numbers written in the values of the fields that a cloze        *)
(* directive of the first template names                                   *)
DirectiveNames ==
    LET q == last.model.templates[1].qfmt
    IN  {q[i].n : i \in {j \in DOMAIN q : q[j].k \in {"cloze", "cloze_alt"}}}

NamedMarkerNumbers ==
    UNION {{last.specs[i][j].num : j \in {x \in DOMAIN last.specs[i] :
                                            last.specs[i][x].k = "mk"}} :
             i \in {f \in DOMAIN last.specs : last.model.fields[f] \in DirectiveNames}}

ExpectedClozeOrds ==
    LET shifted == {n - 1 : n \in {x \in NamedMarkerNumbers : x >= 1}}
    IN  IF shifted = {} THEN {0} ELSE shifted

HasSpace(tagOpt) ==
    \E i \in DOMAIN unwrap_or(tagOpt, <<>>) : " " \in Range(unwrap_or(tagOpt, <<>>)[i])

WhitespaceChars == {" ", "\t", "\n"}

HasWhitespace(tagOpt) ==
    \E i \in DOMAIN unwrap_or(tagOpt, <<>>) :
        Range(unwrap_or(tagOpt, <<>>)[i]) \cap WhitespaceChars # {}

Mismatch ==
    Err("ModelFieldCountMismatch", <<num_fields(last.model), Len(last.specs)>>)

(* C5 as claimed: a core constructor returns ModelFieldCountMismatch(model *)
(* field count, supplied count) whenever the two counts differ.            *)
C5_MismatchAlways ==
    (last.op \in CoreOps /\ Len(last.specs) # num_fields(last.model))
    => last.res = Mismatch

(* C5 amended: when the counts differ, Note::new always, and               *)
(* Note::with_options unless a tag contains a space (the tag check comes   *)
(* first), returns ModelFieldCountMismatch(model count, supplied count),   *)
(* for Basic and Cloze alike, without calling req() and without a Note.    *)
C5_MismatchUnlessTagError ==
    (/\ last.op \in CoreOps
     /\ Len(last.specs) # num_fields(last.model)
     /\ ~HasSpace(last.tags))
    => /\ last.res = Mismatch
       /\ last.req = None

C5_Witness ==
    /\ last.op = "Note::with_options"
    /\ last.model = ClozeModel
    /\ Len(last.specs) = 3
    /\ last.tags = Some(<<(<<"t">>)>>)
    /\ last.res = Err("ModelFieldCountMismatch", <<2, 3>>)

(* C6: Note::with_options returns TagContainsWhitespace exactly when some  *)
(* supplied tag contains a whitespace character (space, tab, newline).     *)
C6_WhitespaceTagRejected ==
    last.op = "Note::with_options"
    => (HasWhitespace(last.tags) <=> last.res = Err("TagContainsWhitespace", <<>>))

(* C10: the card ordinals of a constructed core Note are pairwise distinct *)
(* and non-negative, and below the number of templates for a Basic model.  *)
C10_OrdinalsDistinct ==
    (last.op \in CoreOps /\ last.res.status = "ok")
    => LET cards == ResultNote.cards
       IN  /\ \A i, j \in DOMAIN cards : i # j => cards[i].ord # cards[j].ord
           /\ \A i \in DOMAIN cards : cards[i].ord >= 0
           /\ last.model.model_type = "Basic"
                => \A i \in DOMAIN cards : cards[i].ord < num_templates(last.model)

C10_Witness ==
    /\ last.op = "Note::new"
    /\ last.model = ClozeModel
    /\ last.res.status = "ok"
    /\ last.specs[1] = <<Mk(1, 0, <<"A">>), Txt(<<"x">>), Mk(1, 1, <<"B">>)>>
    /\ CardOrds(ResultNote.cards) = <<0>>

(* ---------------------------------------------------------------------- *)
(* Properties of packaging and export                                      *)
(* ---------------------------------------------------------------------- *)
(* C7: Package::new returns Err(NoDecks) iff the deck list is empty; any   *)
(* non-empty list gives Ok (a package of those decks and that media),      *)
(* also with no media and with decks that hold no note.                    *)
C7_NoDecksIffEmpty ==
    pkg.called
    => /\ (pkg.res = Err("NoDecks", <<>>)) <=> (Len(pkg.deck_list) = 0)
       /\ Len(pkg.deck_list) > 0
            => /\ pkg.res.status = "ok"
               /\ Package.decks = pkg.deck_list
               /\ DOMAIN Package.media_files = DOMAIN pkg.media_files

C7_Witness ==
    /\ pkg.called
    /\ pkg.res.status = "ok"
    /\ DOMAIN pkg.media_files = {}
    /\ \E d \in DOMAIN pkg.deck_list : Len(pkg.deck_list[d].notes) = 0

IsNoteRow(r) == r.tbl = "notes"
IsCardRow(r) == r.tbl = "cards"

NoteRows == SelectSeq(db.rows, IsNoteRow)
CardRows == SelectSeq(db.rows, IsCardRow)

(* number of notes in the decks before deck d *)
NotesBefore(d) == TotalNotes(SubSeq(Package.decks, 1, d - 1))

RECURSIVE CardCount(_)
CardCount(notes) == IF notes = <<>> THEN 0 ELSE Len(Head(notes).cards) + CardCount(Tail(notes))

RECURSIVE TotalCards(_)
TotalCards(ds) == IF ds = <<>> THEN 0 ELSE CardCount(Head(ds).notes) + TotalCards(Tail(ds))

CardRowsOf(note_id) == LET mine(r) == r.tbl = "cards" /\ r.nid = note_id
                       IN  SelectSeq(db.rows, mine)

(* C8: after a successful export there is one notes row per Note and one   *)
(* cards row per Card; the cards rows whose nid is the id of a note's row  *)
(* are that note's cards, in order, with did the id of the note's deck and *)
(* ord the card's ordinal.                                                 *)
C8_RowsMatchNotes ==
    exp.phase = "done"
    => /\ Len(NoteRows) = TotalNotes(Package.decks)
       /\ Len(CardRows) = TotalCards(Package.decks)
       /\ \A d \in DOMAIN Package.decks : \A j \in DOMAIN Package.decks[d].notes :
            LET note == Package.decks[d].notes[j]
                nrow == NoteRows[NotesBefore(d) + j]
                crows == CardRowsOf(nrow.id)
            IN  /\ nrow.guid = note.guid
                /\ nrow.mid = note.model.id
                /\ Len(crows) = Len(note.cards)
                /\ \A c \in DOMAIN crows :
                     /\ crows[c].did = Package.decks[d].id
                     /\ crows[c].ord = note.cards[c].ord

C8_Witness ==
    /\ exp.phase = "done"
    /\ Len(Package.decks) = 2
    /\ Len(Package.decks[1].notes) = 1
    /\ Len(Package.decks[1].notes[1].cards) = 0
    /\ Len(Package.decks[2].notes) = 1
    /\ Len(Package.decks[2].notes[1].cards) = 2
    /\ Len(CardRows) = 2

(* C9: the row ids given during one export strictly increase in write      *)
(* order across all decks, so they are pairwise distinct; every cards row  *)
(* follows the notes row of its note with only cards rows of that note in  *)
(* between, and has a greater id than it.                                  *)
C9_IdsIncrease ==
    /\ \A i, j \in DOMAIN db.rows : i < j => db.rows[i].id < db.rows[j].id
    /\ \A i \in DOMAIN db.rows : db.rows[i].id < exp.gen
    /\ \A i \in DOMAIN db.rows :
         db.rows[i].tbl = "cards"
         => \E j \in 1..(i - 1) :
              /\ db.rows[j].tbl = "notes"
              /\ db.rows[j].id = db.rows[i].nid
              /\ db.rows[j].id < db.rows[i].id
              /\ \A k \in (j + 1)..(i - 1) : db.rows[k].tbl = "cards"

C9_Witness ==
    /\ exp.phase = "done"
    /\ Len(Package.decks) = 2
    /\ Len(NoteRows) = 2
    /\ Len(CardRows) = 3
    /\ db.rows[1].tbl = "notes"
    /\ db.rows[Len(db.rows)].tbl = "cards"
    /\ db.rows[Len(db.rows)].did = Package.decks[2].id


(* ---------------------------------------------------------------------- *)
(* Properties of the built note                                            *)
(* ---------------------------------------------------------------------- *)
(* the cards a construction from the recorded model and field values can give *)
ConstructionCards ==
    {out.res.value[1].cards :
       out \in {o \in Note_with_options(last.model, FlattenAll(last.specs), None, None, None) :
                  o.res.status = "ok"}}

(* C11: the cards and the field values of a constructed note are those of  *)
(* its construction and no later step changes them: not with_sort_field,   *)
(* with_tags, with_tag, with_guid, not an edit of the model through        *)
(* model_mut, not the move into a deck, not an edit through notes_mut.     *)
C11_CardsFrozen ==
    /\ [](last.op # "none" =>
            /\ Built.cards \in ConstructionCards
            /\ Built.fields = FlattenAll(last.specs))
    /\ [][/\ last.op # "none" =>
               /\ last'.res.value[1].cards = Built.cards
               /\ last'.res.value[1].fields = Built.fields
          /\ \A d \in DOMAIN decks :
               /\ \A i \in DOMAIN decks[d].notes :
                    /\ decks'[d].notes[i].cards = decks[d].notes[i].cards
                    /\ decks'[d].notes[i].fields = decks[d].notes[i].fields
               /\ \A i \in (DOMAIN decks'[d].notes) \ (DOMAIN decks[d].notes) :
                    /\ decks'[d].notes[i].cards = Built.cards
                    /\ decks'[d].notes[i].fields = Built.fields]_vars

C11_Witness ==
    /\ last.op = "Deck::add_note"
    /\ Built.cards # <<>>
    /\ Built.tags # <<>>
    /\ Built.sort_field
    /\ Built.guid = GivenGuid(<<"h">>)
    /\ \E d \in DOMAIN decks : \E i \in DOMAIN decks[d].notes :
         /\ decks[d].notes[i].model # last.model
         /\ decks[d].notes[i].cards = Built.cards
         /\ decks[d].notes[i].tags # <<>>


(* ---------------------------------------------------------------------- *)
(* Properties of Model::req                                                *)
(* ---------------------------------------------------------------------- *)
ReqCalls == last.res.value

(* C12: all calls of Model::req on one unchanged model with two or more    *)
(* fields return the same requirement list: same modes, same field         *)
(* ordinals in the same order.                                             *)
C12_ReqDeterministic ==
    (last.op = "Model::req" /\ num_fields(last.model) >= 2)
    => \A i, j \in DOMAIN ReqCalls : ReqCalls[i] = ReqCalls[j]

(* the names a question format refers to, conditional sections included *)
RECURSIVE Referenced(_)
Referenced(elems) ==
    IF elems = <<>> THEN {}
    ELSE LET e == Head(elems)
         IN  (IF e.k \in {"var", "sec", "inv"} THEN {e.n} ELSE {})
             \cup (IF e.k \in {"sec", "inv"} THEN Referenced(e.body) ELSE {})
             \cup Referenced(Tail(elems))

(* the templates of the called model that refer to none of its fields *)
Unreferencing ==
    {t \in DOMAIN last.model.templates :
       /\ last.model.templates[t].wellformed
       /\ Referenced(last.model.templates[t].qfmt) \cap Range(last.model.fields) = {}}

(* C13: for a Basic model with at least one field and a template whose     *)
(* question format refers to none of its fields, Model::req fails with     *)
(* TemplateFormat naming that template and the Note constructors fail.     *)
C13_UnreferencedTemplateFails ==
    (/\ last.op \in CoreOps \cup {"Model::req"}
     /\ last.model.model_type = "Basic"
     /\ num_fields(last.model) >= 1
     /\ Unreferencing # {})
    => /\ last.op \in CoreOps => last.res.status = "err"
       /\ last.req # None =>
            \E t \in Unreferencing :
               last.req[1] = Err("TemplateFormat", last.model.templates[t].name)

(* C14: Note::new returns Ok(note) or Err(error) for every model and every *)
(* list of field values; it never panics.                                  *)
C14_NoteNewTotal ==
    last.op = "Note::new" => last.res.status \in {"ok", "err"}

(* ---------------------------------------------------------------------- *)
(* Properties of the guid                                                  *)
(* ---------------------------------------------------------------------- *)
(* C15: a note constructed without an explicit guid has the guid that      *)
(* guid_for gives for its field values, whatever its model, its tags and   *)
(* its sort_field: notes with the same field values get the same guid.     *)
C15_DefaultGuidFromFields ==
    (last.op \in CoreOps /\ last.res.status = "ok" /\ last.guid = None)
    => ResultNote.guid = guid_for(FlattenAll(last.specs))

C15_Witness ==
    /\ last.op = "Note::with_options"
    /\ last.res.status = "ok"
    /\ last.guid = None
    /\ last.model = ClozeModel
    /\ last.tags = Some(<<(<<"t">>)>>)
    /\ last.sort_field = Some(TRUE)
    /\ ResultNote.guid = guid_for(ResultNote.fields)
    /\ ResultNote.fields[1] # <<>>

(* C16: when a guid was supplied, to Note::with_options or last to         *)
(* with_guid, the note's guid is that guid, whatever the field values, and *)
(* so is the guid column of every notes row the export writes for it.      *)
C16_GivenGuidKept ==
    (last.op # "none" /\ last.guid # None)
    => /\ Built.guid = last.guid[1]
       /\ \A i \in DOMAIN db.rows :
            IsNoteRow(db.rows[i]) => db.rows[i].guid = last.guid[1]

C16_Witness ==
    /\ exp.phase = "done"
    /\ last.guid = Some(GivenGuid(<<"h">>))
    /\ Built.guid # guid_for(Built.fields)
    /\ \E i \in DOMAIN db.rows :
         /\ IsNoteRow(db.rows[i])
         /\ db.rows[i].guid = GivenGuid(<<"h">>)
         /\ db.rows[i].flds = format_fields(Built)

GuidCalls == last.res.value

(* C17: guid_for gives different guids for different field sequences, the *)
(* empty sequence and sequences of empty strings included (the digest      *)
(* taken as injective on the string it is given).                          *)
C17_GuidInjective ==
    last.op = "guid_for"
    => \A i, j \in DOMAIN GuidCalls :
          GuidCalls[i].fields # GuidCalls[j].fields
          => GuidCalls[i].guid # GuidCalls[j].guid

(* ---------------------------------------------------------------------- *)
(* Properties of the deck                                                  *)
(* ---------------------------------------------------------------------- *)
(* the index of the note added last among those of the deck with this model id *)
LastWith(deck, id) ==
    CHOOSE i \in DOMAIN deck.notes :
        /\ deck.notes[i].model.id = id
        /\ \A j \in DOMAIN deck.notes : deck.notes[j].model.id = id => j <= i

(* C18: add_note and add_notes append the added notes in order and touch   *)
(* no earlier note; the model map of a deck has one entry per model id     *)
(* among its notes, holding the model of the note added last with that id, *)
(* so adding a note whose model id is present leaves num_models unchanged. *)
C18_DeckTracksNotes ==
    /\ [](\A d \in DOMAIN decks :
            /\ DOMAIN decks[d].models =
                 {decks[d].notes[i].model.id : i \in DOMAIN decks[d].notes}
            /\ \A id \in DOMAIN decks[d].models :
                 decks[d].models[id] = decks[d].notes[LastWith(decks[d], id)].model)
    /\ [][\A d \in DOMAIN decks :
            /\ Len(decks'[d].notes) >= Len(decks[d].notes)
            /\ SubSeq(decks'[d].notes, 1, Len(decks[d].notes)) = decks[d].notes
            /\ \A i \in (DOMAIN decks'[d].notes) \ (DOMAIN decks[d].notes) :
                 decks'[d].notes[i] \in ExportNotes
            /\ (/\ Len(decks'[d].notes) = Len(decks[d].notes) + 1
                /\ decks'[d].notes[Len(decks'[d].notes)].model.id \in DOMAIN decks[d].models)
               => Cardinality(DOMAIN decks'[d].models) = Cardinality(DOMAIN decks[d].models)
         ]_vars

C18_Witness ==
    \E d \in DOMAIN decks :
        /\ Len(decks[d].notes) = 2
        /\ decks[d].notes[1].model = BasicModel
        /\ decks[d].notes[2].model = RevisedBasicModel
        /\ Cardinality(DOMAIN decks[d].models) = 1
        /\ decks[d].models[1] = RevisedBasicModel

(* ---------------------------------------------------------------------- *)
(* Properties of the archive                                               *)
(* ---------------------------------------------------------------------- *)
EntriesNamed(nm) == {i \in DOMAIN exp.archive : exp.archive[i].name = nm}

MediaFiles == Package.media_files

(* C19: the archive of a completed export holds 2 + (number of media       *)
(* files) entries: the database as collection.anki2, the media index as    *)
(* collection.media, and for each media file one entry media/<name> with   *)
(* that file's bytes.                                                      *)
C19_ArchiveEntries ==
    exp.phase = "done"
    => /\ Len(exp.archive) = 2 + Cardinality(DOMAIN MediaFiles)
       /\ \E i \in DOMAIN exp.archive :
            /\ EntriesNamed(<<"c", "o", "l", "l", "e", "c", "t", "i", "o", "n", ".",
                              "a", "n", "k", "i", "2">>) = {i}
            /\ exp.archive[i].data = db
       /\ Cardinality(EntriesNamed(<<"c", "o", "l", "l", "e", "c", "t", "i", "o", "n", ".",
                                     "m", "e", "d", "i", "a">>)) = 1
       /\ \A name \in DOMAIN MediaFiles :
            \E i \in DOMAIN exp.archive :
               /\ EntriesNamed(<<"m", "e", "d", "i", "a", "/">> \o name) = {i}
               /\ exp.archive[i].data = MediaFiles[name]

C19_Witness ==
    /\ exp.phase = "done"
    /\ Cardinality(DOMAIN MediaFiles) = 2
    /\ Len(exp.archive) = 4
    /\ NoteRows # <<>>

(* the media index written into the archive *)
MediaIndex ==
    exp.archive[CHOOSE i \in DOMAIN exp.archive :
                   exp.archive[i].name = MEDIA_MAPPING_FILENAME].data.members

(* C20: the media index of a completed export has one key per media file   *)
(* of the package and maps each key to that file's original name.          *)
C20_IndexMapsToOriginalName ==
    exp.phase = "done"
    => /\ DOMAIN MediaIndex = DOMAIN MediaFiles
       /\ \A key \in DOMAIN MediaIndex : MediaIndex[key] = key

(* ---------------------------------------------------------------------- *)
(* Per-deck atomicity of the export                                        *)
(* ---------------------------------------------------------------------- *)
(* the databases left by committing the decks ds one after the other *)
RECURSIVE Committed(_, _, _, _)
Committed(ds, database, timestamp, gen) ==
    IF ds = <<>> THEN {database}
    ELSE UNION {Committed(Tail(ds), w.db, timestamp, w.gen) :
                  w \in write_deck_to_db(Head(ds), database, timestamp, gen)}

(* C21: when the write of deck k fails, the database holds exactly what     *)
(* the decks before k committed (rows, deck registry, model registry) and   *)
(* nothing that the transaction of deck k wrote.                            *)
C21_FailedDeckInvisible ==
    exp.phase = "failed" =>
        db \in Committed(SubSeq(Package.decks, 1, exp.k - 1), InitDb, exp.timestamp, 0)

(* the second deck fails after the first one committed rows, and the       *)
(* failing deck had rows of its own to write                                *)
C21_Witness ==
    /\ exp.phase = "failed"
    /\ exp.k = 2
    /\ db.rows # <<>>
    /\ Package.decks[2].notes # <<>>
    /\ Package.decks[2].id \notin DOMAIN db.decks

(* ---------------------------------------------------------------------- *)
(* Errors of the export                                                    *)
(* ---------------------------------------------------------------------- *)
(* the models the exported decks carry *)
ExportedModels ==
    UNION {{Package.decks[d].models[id] : id \in DOMAIN Package.decks[d].models} :
             d \in DOMAIN Package.decks}

(* C22: every error of the export reaches the caller of write_to_file; in  *)
(* particular an export that completes has no model for which Model::req   *)
(* fails, so no registry entry stands for a failed requirement computation. *)
C22_ReqErrorFailsExport ==
    exp.phase = "done" =>
        \A model \in ExportedModels : \A r \in req(model) : r.status = "ok"

(* ---------------------------------------------------------------------- *)
(* What the legacy Model::req returns                                      *)
(* ---------------------------------------------------------------------- *)
(* declaration indices of the fields whose placeholder occurs in the       *)
(* question of template t rendered with every field filled                 *)
Occurring(model, t) ==
    {i \in 0..(num_fields(model) - 1) :
        Contains(Render(model.templates[t + 1].qfmt, field_values(model)),
                 Placeholder(model.fields[i + 1]))}

(* those of them whose placeholder is the only one that occurs *)
OccurringAlone(model, t) ==
    {i \in Occurring(model, t) : Occurring(model, t) = {i}}

(* a sequence lists exactly the set S of indices, in ascending order *)
ListsExactly(ords, S) ==
    /\ Len(ords) = Cardinality(S)
    /\ {ords[i] : i \in DOMAIN ords} = S
    /\ \A i, j \in DOMAIN ords : i < j => ords[i] < ords[j]

(* C23: the legacy Model::req returns one requirement per template, in     *)
(* template order; its mode is all exactly when some field's placeholder   *)
(* is the only placeholder in the rendered question, and it then lists     *)
(* exactly those fields; otherwise the mode is any and it lists exactly    *)
(* the fields whose placeholder occurs in the rendering.                   *)
C23_LegacyReqShape ==
    (last.op \in LegacyOps /\ last.req # None /\ last.req[1].status = "ok") =>
        LET reqs == last.req[1].value
        IN  /\ Len(reqs) = num_templates(last.model)
            /\ \A t \in DOMAIN reqs :
                  /\ reqs[t].ord = t - 1
                  /\ reqs[t].mode \in {"all", "any"}
                  /\ reqs[t].mode = "all" <=> OccurringAlone(last.model, t - 1) # {}
                  /\ reqs[t].mode = "all" =>
                        ListsExactly(reqs[t].fields, OccurringAlone(last.model, t - 1))
                  /\ reqs[t].mode = "any" =>
                        ListsExactly(reqs[t].fields, Occurring(last.model, t - 1))

(* ---------------------------------------------------------------------- *)
(* The registries of the exported database                                 *)
(* ---------------------------------------------------------------------- *)
(* the decks whose transaction has committed *)
WrittenDecks == SubSeq(Package.decks, 1, exp.k - 1)

(* the position of the last written deck with the given id *)
LastDeckWith(id) ==
    CHOOSE d \in DOMAIN WrittenDecks :
        /\ WrittenDecks[d].id = id
        /\ \A e \in DOMAIN WrittenDecks : WrittenDecks[e].id = id => e <= d

(* C24: the deck registry holds, for every exported deck, an entry keyed   *)
(* by the deck's id with that deck's id, name and description; of decks    *)
(* sharing an id the later one's entry stands; every other key, the        *)
(* seeded default deck 1 included, is as the schema seeded it.             *)
C24_DeckRegistry ==
    exp.phase \in {"decks", "done"} =>
        /\ \A d \in DOMAIN WrittenDecks :
              LET id == WrittenDecks[d].id
                  deck == WrittenDecks[LastDeckWith(id)]
              IN  /\ id \in DOMAIN db.decks
                  /\ db.decks[id].id = id
                  /\ db.decks[id].name = deck.name
                  /\ db.decks[id].desc = deck.description
        /\ \A key \in (DOMAIN db.decks) \ {WrittenDecks[d].id : d \in DOMAIN WrittenDecks} :
              key \in DOMAIN InitDb.decks /\ db.decks[key] = InitDb.decks[key]
        /\ 1 \in DOMAIN db.decks

(* two decks under one id were exported, and the default deck was kept *)
C24_Witness ==
    /\ exp.phase = "done"
    /\ Len(Package.decks) = 2
    /\ Package.decks[1].id = 2
    /\ Package.decks[2].id = 2
    /\ db.decks[2].name = Package.decks[2].name
    /\ Package.decks[1].name # Package.decks[2].name
    /\ db.decks[1] = DefaultDeckEntry

(* the model ids of the notes of the written decks *)
WrittenModelIds ==
    UNION {{WrittenDecks[d].notes[i].model.id : i \in DOMAIN WrittenDecks[d].notes} :
             d \in DOMAIN WrittenDecks}

(* the last written deck that has a note of the model id *)
LastDeckWithModel(id) ==
    CHOOSE d \in DOMAIN WrittenDecks :
        /\ \E i \in DOMAIN WrittenDecks[d].notes : WrittenDecks[d].notes[i].model.id = id
        /\ \A e \in DOMAIN WrittenDecks :
              (\E i \in DOMAIN WrittenDecks[e].notes : WrittenDecks[e].notes[i].model.id = id)
                 => e <= d

C26_CardRowDefaults ==
    last.op = "write_card_to_db" =>
        LET cards == last.res.value
        IN  /\ Len(db.rows) = Len(cards)
            /\ \A j \in DOMAIN db.rows :
                  LET r == db.rows[j]
                  IN  /\ r.tbl = "cards"
                      /\ r.queue = (IF cards[j].suspend THEN 0 - 1 ELSE 0)
                      /\ r.type = 0
                      /\ <<r.due, r.ivl, r.factor, r.reps, r.lapses, r.left,
                            r.odue, r.odid, r.flags>> = <<0, 0, 0, 0, 0, 0, 0, 0, 0>>

(* a suspended and an unsuspended card were written *)
C26_Witness ==
    /\ last.op = "write_card_to_db"
    /\ Len(db.rows) = 2
    /\ last.res.value[1].suspend
    /\ db.rows[1].queue = 0 - 1
    /\ ~last.res.value[2].suspend
    /\ db.rows[2].queue = 0

RECURSIVE NotesOfDecks(_)
NotesOfDecks(ds) == IF ds = <<>> THEN <<>> ELSE Head(ds).notes \o NotesOfDecks(Tail(ds))

(* the number of separator characters in a flds value *)
Separators(flds) == Cardinality({i \in DOMAIN flds : flds[i] = US})

(* C27: the tags column of a notes row is one space, the note's tags       *)
(* joined by single spaces, and one space; its flds column is the field    *)
(* values joined by the 0x1F separator, so a note of n >= 1 fields none of *)
(* which contains 0x1F has exactly n - 1 separators in flds.               *)
C27_NoteRowFormat ==
    exp.phase \in {"decks", "done"} =>
        LET notes == NotesOfDecks(WrittenDecks)
        IN  /\ Len(NoteRows) = Len(notes)
            /\ \A j \in DOMAIN NoteRows :
                  LET r == NoteRows[j]
                      note == notes[j]
                  IN  /\ r.tags = <<" ">> \o Join(note.tags, <<" ">>) \o <<" ">>
                      /\ r.flds = Join(note.fields, <<US>>)
                      /\ (/\ Len(note.fields) >= 1
                          /\ \A i \in DOMAIN note.fields : ~Contains(note.fields[i], <<US>>))
                         => Separators(r.flds) = Len(note.fields) - 1

(* a note of two fields and two tags was written *)
C27_Witness ==
    /\ exp.phase = "done"
    /\ Len(NoteRows) = 1
    /\ Len(Package.decks[1].notes[1].tags) = 2
    /\ Len(Package.decks[1].notes[1].fields) = 2
    /\ Separators(NoteRows[1].flds) = 1
    /\ NoteRows[1].tags = <<" ", "t", " ", "t", " ">>

(* ---------------------------------------------------------------------- *)
(* Tags of a note under the builders                                       *)
(* ---------------------------------------------------------------------- *)
TagsClean(tags) ==
    \A i \in DOMAIN tags : \A p \in DOMAIN tags[i] : tags[i][p] \notin WhitespaceChars

(* C28: no Note holds a tag that contains whitespace, after construction   *)
(* and after any sequence of with_tags and with_tag calls, so no such tag  *)
(* is held by a note of a deck or by a note whose row the export wrote.    *)
C28_NoWhitespaceTag ==
    /\ Building => TagsClean(Built.tags)
    /\ \A d \in DOMAIN decks : \A i \in DOMAIN decks[d].notes :
          TagsClean(decks[d].notes[i].tags)
    /\ exp.phase \in {"decks", "done"} =>
          \A d \in DOMAIN WrittenDecks : \A i \in DOMAIN WrittenDecks[d].notes :
             TagsClean(WrittenDecks[d].notes[i].tags)

(* ---------------------------------------------------------------------- *)
(* The optional reversed card                                              *)
(* ---------------------------------------------------------------------- *)
(* C29: a note of the optional-reversed model (question of the second      *)
(* template: the Back field inside a section on AddReverse) gets the       *)
(* reversed card, ordinal 1, only when its AddReverse value is non-empty.  *)
C29_ReverseOnlyIfAsked ==
    (/\ last.op \in CoreOps \cup LegacyOps
     /\ last.model = OptionalReversedModel
     /\ last.res.status = "ok")
    => ((\E i \in DOMAIN ResultNote.cards : ResultNote.cards[i].ord = 1)
           => Flatten(last.specs[position(last.model.fields, AddReverse, 1)]) # <<>>)

(* ---------------------------------------------------------------------- *)
(* Note rows against the model registry                                    *)
(* ---------------------------------------------------------------------- *)
(* every notes row belongs to the note at its place in write order, and    *)
(* that note has as many values as the registry entry under its mid has    *)
(* fields                                                                  *)
RowsFitRegistry ==
    LET notes == NotesOfDecks(Package.decks)
    IN  /\ Len(NoteRows) = Len(notes)
        /\ \A j \in DOMAIN NoteRows :
              /\ NoteRows[j].mid = notes[j].model.id
              /\ NoteRows[j].mid \in DOMAIN db.models
              /\ Len(notes[j].fields) = Len(db.models[NoteRows[j].mid].flds)

(* the models of the package that share an id have equally many fields *)
UniformModelIds ==
    LET notes == NotesOfDecks(Package.decks)
    IN  \A i, j \in DOMAIN notes :
           notes[i].model.id = notes[j].model.id
              => num_fields(notes[i].model) = num_fields(notes[j].model)

====
